---- MODULE Spec2Model ----
(***************************************************************************)
(* A model of src/github_scraping.py: the function github_scraping and the *)
(* closures it defines (fetch_files, get_next_header, ignore_dir,          *)
(* error403, parse_contents) together with the chunk loop that drives     *)
(* them.  Strings the code inspects character by character (paths, names,  *)
(* extensions) are sequences of one-character strings.                     *)
(***************************************************************************)
EXTENDS Integers, Sequences, FiniteSets, TLC

VARIABLES
    curpath,          \* ignore_dir: the argument of the call under test
    ignored,          \* ignore_dir: its result, once pc = "filtered"
    token,            \* the credential list handed to github_scraping
    header_queue,     \* deque of headers built at lines 48-51
    returned,         \* the headers get_next_header returned, oldest first
    observed,         \* <<h>> once header_queue[-1] was read as h, <<>> before
    afterGPT,         \* the temporal mode
    tree,             \* the repository snapshot: directory path -> listing
    history,          \* the repository snapshot: file path -> commit list
    repositories,     \* what fetch_repositories returned
    chunks,           \* line 225
    chunk_index,      \* loop variable of line 229
    repo_index,       \* position of the loop of line 234 inside the chunk
    all_py_files,     \* line 230
    total_py_files,   \* line 226
    storage,          \* the parquet files written so far: chunk_index -> records
    py_files,         \* line 100, the list the running walk appends to
    stack,            \* the active parse_contents invocations, innermost last
    pc,               \* position of the run
    err,              \* the exception that ended the run, "none" if none
    n403,             \* 403 responses answered so far
    nerr,             \* other non-200 responses answered so far
    slept,            \* seconds spent in time.sleep so far
    only403,          \* TRUE while every response of the walk so far was a 403
    outage,           \* the provider answers 403 to the first outage requests
                      \* of the walk; 0: 403 responses fall anywhere
    walked,           \* the repositories handed to fetch_files, in order
    fetched,          \* what each finished fetch_files returned, in order
    last              \* what the last step did

vars == <<curpath, ignored, token, header_queue, returned, observed, afterGPT,
          tree, history, repositories, chunks, chunk_index, repo_index,
          all_py_files, total_py_files, storage, py_files, stack, pc, err,
          n403, nerr, slept, only403, outage, walked, fetched, last>>

(***************************************************************************)
(* Bounds of the model.                                                    *)
(***************************************************************************)
MaxPathLen == 5
MaxTokens == 2
RotTokens == 3
MaxCalls == 7
Max403 == 2
MaxErr == 1
MaxCommits == 3
MaxRepos == 10
MaxOutage == 499

(***************************************************************************)
(* Helpers on sequences.                                                   *)
(***************************************************************************)
Range(s) == {s[i] : i \in 1..Len(s)}

SeqsUpTo(S, n) == UNION {[1..k -> S] : k \in 0..n}

Min(a, b) == IF a < b THEN a ELSE b

(***************************************************************************)
(* Path Filter: ignore_dir.                                                *)
(***************************************************************************)
\* str.lower() on the characters the model uses
LowerChar(c) ==
    CASE c = "E" -> "e"
      [] c = "N" -> "n"
      [] c = "V" -> "v"
      [] OTHER -> c

lower(s) == [i \in 1..Len(s) |-> LowerChar(s[i])]

\* s.rsplit('/', 1)[-1]: what follows the last '/', the whole of s without one
RECURSIVE rsplit_last(_)
rsplit_last(s) ==
    IF s = <<>> THEN <<>>
    ELSE IF s[Len(s)] = "/" THEN <<>>
    ELSE Append(rsplit_last(SubSeq(s, 1, Len(s) - 1)), s[Len(s)])

\* \d of the re module, on the characters the model uses
IsDigit(c) == c \in {"0", "1", "2", "3", "4", "5", "6", "7", "8", "9"}

\* re.match(r'^<prefix>\d+$', s): in Python "$" matches at the end of the
\* string and also just before a newline that ends the string
re_match_digits(prefix, s) ==
    LET body == IF s # <<>> /\ s[Len(s)] = "\n"
                THEN {s, SubSeq(s, 1, Len(s) - 1)}
                ELSE {s}
    IN  \E b \in body :
           /\ Len(b) > Len(prefix)
           /\ SubSeq(b, 1, Len(prefix)) = prefix
           /\ \A i \in (Len(prefix) + 1)..Len(b) : IsDigit(b[i])

\* the ignore_filedir argument of the run at the bottom of the file
ignore_filedir ==
    { <<"v","e","n","v">>, <<".","g","i","t">>, <<".","i","d","e","a">>,
      <<"_","_","p","y","c","a","c","h","e","_","_">>,
      <<"i","m","a","g","e">>, <<"i","m","a","g","e","s">>,
      <<"l","i","b">>, <<"l","i","b","s">>, <<"e","n","v">>,
      <<"i","m","g">> }

ignore_dir(p) ==
    LET lower_path == lower(rsplit_last(p))
    IN  IF lower_path \in ignore_filedir THEN TRUE
        ELSE IF re_match_digits(<<"v","e","n","v">>, lower_path) THEN TRUE
        ELSE IF re_match_digits(<<"e","n","v">>, lower_path) THEN TRUE
        ELSE FALSE

(***************************************************************************)
(* Token Rotator: the deque of headers and get_next_header.                *)
(***************************************************************************)
\* lines 48-51: one header per token, in the order of the token list
Header(t) == [Authorization |-> <<"token", t>>]

build_header_queue(tok) == [i \in 1..Len(tok) |-> Header(tok[i])]

\* get_next_header returning the header that is at the front after the move
get_next_header_newfront(q) ==
    LET header == Head(q)
        moved == Append(Tail(q), header)
    IN  [queue |-> moved, header |-> Head(moved)]

\* get_next_header without the append: the popped header is put back in front
get_next_header_norotate(q) == [queue |-> q, header |-> Head(q)]

\* get_next_header without line 107: the popped header leaves the queue
get_next_header_droppop(q) == [queue |-> Tail(q), header |-> Head(q)]

\* lines 105-108: popleft, append, return the popped header
get_next_header(q) ==
    LET header == Head(q)
    IN  [queue |-> Append(Tail(q), header), header |-> header]

\* line 110: headers = header_queue[-1]
current_header(q) == q[Len(q)]

(***************************************************************************)
(* The provider: response statuses, the repository snapshot.               *)
(***************************************************************************)
\* 404 stands for every status that is neither 200 nor 403
Status == {200, 403, 404}

\* the file_extension argument of the run at the bottom of the file
file_extension == { <<".","p","y">>, <<".","i","p","y","n","b">> }

\* str.endswith
endswith(s, suffix) ==
    /\ Len(s) >= Len(suffix)
    /\ SubSeq(s, Len(s) - Len(suffix) + 1, Len(s)) = suffix

\* one entry of a directory listing; GitHub's name is the last path segment
Item(path, type) == [path |-> path, name |-> rsplit_last(path), type |-> type]

\* the contents URL of the repository root (line 103)
contents_url == <<>>

\* datetime(2022, 11, 1) of line 188
Cutoff == <<2022, 11, 1>>

\* a committer date "YYYY-MM-DDT00:00:00Z" is <<Y, M, D, "Z">>
Stamp(y, m, d) == <<y, m, d, "Z">>

\* datetime.fromisoformat on the string without its zone marker
fromisoformat(s) == <<s[1], s[2], s[3]>>

\* datetime.__le__ in place of datetime.__lt__
DateLessOrEqual(a, b) ==
    \/ a[1] < b[1]
    \/ a[1] = b[1] /\ a[2] < b[2]
    \/ a[1] = b[1] /\ a[2] = b[2] /\ a[3] <= b[3]

\* datetime.__lt__
DateLess(a, b) ==
    \/ a[1] < b[1]
    \/ a[1] = b[1] /\ a[2] < b[2]
    \/ a[1] = b[1] /\ a[2] = b[2] /\ a[3] < b[3]

\* one entry of a commit list: utf8 tells whether the blob of that
\* revision decodes as UTF-8
Commit(sha, date, utf8) == [sha |-> sha, date |-> date, utf8 |-> utf8]

\* the FileRecord appended at lines 179-185 and 205-211
FileRecord(content, timestamp, path, repo) ==
    [content |-> content, timestamp |-> timestamp, file_path |-> path,
     repo_name |-> repo.full_name, repo_url |-> repo.html_url]

\* a RepositoryDescriptor as the search returns it
Repo(n) == [full_name |-> n, html_url |-> <<"html", n>>]

(***************************************************************************)
(* Commit-History Selector: the part of parse_contents that handles one    *)
(* selected file (lines 152-215).                                          *)
(***************************************************************************)
\* file_response.text: the current content of the file
CurrentText(path) == [path |-> path, ref |-> "HEAD"]

\* base64.b64decode(...).decode('utf-8') of the blob of revision sha
DecodedText(path, sha) == [path |-> path, ref |-> sha]

\* the scan without the break of line 187: in after-cutoff mode one record
\* per commit entry
RECURSIVE scan_commits_nobreak(_, _, _, _, _, _)
scan_commits_nobreak(repo, item, commit_info, hs, j, find) ==
    IF j > Len(commit_info)
    THEN [out |-> "end", find |-> find, at |-> 0, rec |-> <<>>]
    ELSE
      LET cur_commit == commit_info[j]
          timestamp == cur_commit.date
          cur_commit_time ==
              fromisoformat(SubSeq(timestamp, 1, Len(timestamp) - 1))
      IN  IF afterGPT
          THEN [out |-> "append", find |-> find, at |-> Len(commit_info),
                rec |-> [c \in 1..(Len(commit_info) - j + 1) |->
                            FileRecord(CurrentText(item.path),
                                       commit_info[j + c - 1].date,
                                       item.path, repo)]]
          ELSE IF DateLess(cur_commit_time, Cutoff)
          THEN IF hs[j] = 403
               THEN [out |-> "403", find |-> TRUE, at |-> j, rec |-> <<>>]
               ELSE IF hs[j] # 200
               THEN [out |-> "return", find |-> TRUE, at |-> j, rec |-> <<>>]
               ELSE IF ~cur_commit.utf8
               THEN scan_commits_nobreak(repo, item, commit_info, hs, j + 1, TRUE)
               ELSE [out |-> "append", find |-> TRUE, at |-> j,
                     rec |-> <<FileRecord(DecodedText(item.path, cur_commit.sha),
                                          timestamp, item.path, repo)>>]
          ELSE scan_commits_nobreak(repo, item, commit_info, hs, j + 1, find)

\* the scan with a break in place of the continue of line 204: a revision
\* that does not decode ends the scan of the file
RECURSIVE scan_commits_stop_on_decode(_, _, _, _, _, _)
scan_commits_stop_on_decode(repo, item, commit_info, hs, j, find) ==
    IF j > Len(commit_info)
    THEN [out |-> "end", find |-> find, at |-> 0, rec |-> <<>>]
    ELSE
      LET cur_commit == commit_info[j]
          timestamp == cur_commit.date
          cur_commit_time ==
              fromisoformat(SubSeq(timestamp, 1, Len(timestamp) - 1))
      IN  IF afterGPT
          THEN [out |-> "append", find |-> find, at |-> j,
                rec |-> <<FileRecord(CurrentText(item.path), timestamp,
                                     item.path, repo)>>]
          ELSE IF DateLess(cur_commit_time, Cutoff)
          THEN IF hs[j] = 403
               THEN [out |-> "403", find |-> TRUE, at |-> j, rec |-> <<>>]
               ELSE IF hs[j] # 200
               THEN [out |-> "return", find |-> TRUE, at |-> j, rec |-> <<>>]
               ELSE IF ~cur_commit.utf8
               THEN [out |-> "end", find |-> TRUE, at |-> 0, rec |-> <<>>]
               ELSE [out |-> "append", find |-> TRUE, at |-> j,
                     rec |-> <<FileRecord(DecodedText(item.path, cur_commit.sha),
                                          timestamp, item.path, repo)>>]
          ELSE scan_commits_stop_on_decode(repo, item, commit_info, hs,
                                           j + 1, find)

\* lines 170-213: the for loop over commit_info, from entry j on.  hs[j] is
\* the status the provider answers to the request for revision j.
RECURSIVE scan_commits(_, _, _, _, _, _)
scan_commits(repo, item, commit_info, hs, j, find) ==
    IF j > Len(commit_info)
    THEN [out |-> "end", find |-> find, at |-> 0, rec |-> <<>>]
    ELSE
      LET cur_commit == commit_info[j]
          timestamp == cur_commit.date
          cur_commit_time ==
              fromisoformat(SubSeq(timestamp, 1, Len(timestamp) - 1))
      IN  IF afterGPT
          THEN [out |-> "append", find |-> find, at |-> j,
                rec |-> <<FileRecord(CurrentText(item.path), timestamp,
                                     item.path, repo)>>]
          ELSE IF DateLess(cur_commit_time, Cutoff)
          THEN IF hs[j] = 403
               THEN [out |-> "403", find |-> TRUE, at |-> j, rec |-> <<>>]
               ELSE IF hs[j] # 200
               THEN [out |-> "return", find |-> TRUE, at |-> j, rec |-> <<>>]
               ELSE IF ~cur_commit.utf8
               THEN scan_commits(repo, item, commit_info, hs, j + 1, TRUE)
               ELSE [out |-> "append", find |-> TRUE, at |-> j,
                     rec |-> <<FileRecord(DecodedText(item.path, cur_commit.sha),
                                          timestamp, item.path, repo)>>]
          ELSE scan_commits(repo, item, commit_info, hs, j + 1, find)

\* select_file returning from parse_contents when no commit qualifies
select_file_abort_exhausted(repo, item, commit_info, fs, cs, hs) ==
    IF fs = 403 \/ cs = 403
    THEN [out |-> "403", rec |-> <<>>, printed |-> "Rate limit exceeded", at |-> 0]
    ELSE IF fs # 200 \/ cs # 200
    THEN [out |-> "return", rec |-> <<>>, printed |-> "Error fetching file", at |-> 0]
    ELSE
      LET r == scan_commits(repo, item, commit_info, hs, 1, FALSE)
      IN  CASE r.out = "403" ->
                 [out |-> "403", rec |-> <<>>, printed |-> "Rate limit exceeded",
                  at |-> r.at]
            [] r.out = "append" ->
                 [out |-> "append", rec |-> r.rec, printed |-> "|", at |-> r.at]
            [] OTHER ->
                 [out |-> "return", rec |-> <<>>, at |-> 0,
                  printed |-> "TOO MANY COMMITS"]

\* lines 152-215 for one file: fs and cs are the statuses of the content
\* and the commit-list responses.  out is what parse_contents does next:
\* "403" (error403, then return), "return", "append" (a record, then the
\* next entry) or "next" (no record, then the next entry).
select_file(repo, item, commit_info, fs, cs, hs) ==
    IF fs = 403 \/ cs = 403
    THEN [out |-> "403", rec |-> <<>>, printed |-> "Rate limit exceeded", at |-> 0]
    ELSE IF fs # 200
    THEN [out |-> "return", rec |-> <<>>, printed |-> "Error fetching file", at |-> 0]
    ELSE IF cs # 200
    THEN [out |-> "return", rec |-> <<>>, printed |-> "Error fetching commit", at |-> 0]
    ELSE
      LET r == scan_commits(repo, item, commit_info, hs, 1, FALSE)
      IN  CASE r.out = "403" ->
                 [out |-> "403", rec |-> <<>>, printed |-> "Rate limit exceeded",
                  at |-> r.at]
            [] r.out = "return" ->
                 [out |-> "return", rec |-> <<>>,
                  printed |-> "Error fetching current commit file", at |-> r.at]
            [] r.out = "append" ->
                 [out |-> "append", rec |-> r.rec, printed |-> "|", at |-> r.at]
            [] OTHER ->
                 [out |-> "next", rec |-> <<>>, at |-> 0,
                  printed |-> IF ~afterGPT /\ ~r.find
                              THEN "TOO MANY COMMITS" ELSE "none"]

(***************************************************************************)
(* Tree Walker: parse_contents and error403 (lines 125-217).  stack holds  *)
(* one frame per active parse_contents invocation: the URL it lists, the   *)
(* headers it was called with, where it is ("fetch": before line 138,      *)
(* "loop": in the for loop of line 146 at entry i, "ret": waiting to       *)
(* return after the retry started by error403 comes back).                 *)
(***************************************************************************)
filterVars == <<curpath, ignored>>
inputVars == <<token, afterGPT, tree, history, repositories, outage>>
chunkVars == <<chunks, chunk_index, repo_index, all_py_files, total_py_files,
               storage, walked>>
batchVars == <<chunks, chunk_index, repo_index, all_py_files, total_py_files,
               storage, err, walked>>

Frame(url, headers) == [url |-> url, headers |-> headers, at |-> "fetch", i |-> 0]

top == stack[Len(stack)]

\* response.json() of the listing the top frame fetched
items == tree[top.url]

\* the repo argument of the running fetch_files
repo == walked[Len(walked)]

Pop(st) == SubSeq(st, 1, Len(st) - 1)

Event(op, path, out, printed, fs, cs, at) ==
    [op |-> op, path |-> path, out |-> out, printed |-> printed,
     fs |-> fs, cs |-> cs, at |-> at]

\* line 132: time.sleep(3)
sleep_seconds == 3

\* the interpreter's limit on the depth of the call stack
\* (sys.getrecursionlimit(), which the program leaves at its default); a
\* call that would exceed it raises RecursionError
getrecursionlimit == 1000

\* the frames under the outermost parse_contents of line 220: the module,
\* github_scraping and fetch_files
base_frames == 3

\* the depth of the call stack: one frame per active parse_contents and one
\* per active error403, which is still running under each invocation that
\* waits for its retry
py_frames(st) ==
    base_frames + Len(st) + Cardinality({k \in 1..Len(st) : st[k].at = "ret"})

\* the responses the provider may give: during an outage 403 and nothing
\* else, after it no 403; without outage 403 and other failures anywhere,
\* up to Max403 and MaxErr of them
may_throttle == IF outage = 0 THEN n403 < Max403 ELSE n403 < outage

may_answer == outage = 0 \/ n403 >= outage

\* error403 without line 134: sleeps and rotates, the page is not retried
error403_noretry(url) ==
    LET next == get_next_header(header_queue)
    IN  /\ header_queue' = next.queue
        /\ returned' = Append(returned, next.header)
        /\ stack' = [stack EXCEPT ![Len(stack)].at = "ret"]
        /\ n403' = n403 + 1
        /\ slept' = slept + sleep_seconds
        /\ UNCHANGED <<pc, err>>

\* error403 ending the walk: sleeps, rotates, and every invocation of
\* parse_contents is abandoned
error403_giveup(url) ==
    LET next == get_next_header(header_queue)
    IN  /\ header_queue' = next.queue
        /\ returned' = Append(returned, next.header)
        /\ stack' = <<>>
        /\ n403' = n403 + 1
        /\ slept' = slept + sleep_seconds
        /\ UNCHANGED <<pc, err>>

\* lines 125-135 followed by the return of the caller: sleep, rotate, call
\* parse_contents again on the same listing URL with the header returned
error403(url) ==
    LET next == get_next_header(header_queue)
    IN  /\ header_queue' = next.queue
        /\ returned' = Append(returned, next.header)
        /\ n403' = n403 + 1
        /\ slept' = slept + sleep_seconds
        /\ IF py_frames(stack) + 2 > getrecursionlimit
           THEN /\ stack' = <<>>
                /\ pc' = "halted"
                /\ err' = "RecursionError"
           ELSE /\ stack' = Append([stack EXCEPT ![Len(stack)].at = "ret"],
                                   Frame(url, next.header))
                /\ UNCHANGED <<pc, err>>

\* lines 138-145: the listing request and the checks of its status
FetchListing ==
    /\ pc = "walk"
    /\ stack # <<>>
    /\ top.at = "fetch"
    /\ \E status \in Status :
         /\ IF status = 403 THEN may_throttle ELSE may_answer
         /\ status \notin {200, 403} => nerr < MaxErr
         /\ IF status = 403
            THEN /\ error403(top.url)
                 /\ UNCHANGED nerr
            ELSE IF status # 200
            THEN /\ stack' = Pop(stack)
                 /\ nerr' = nerr + 1
                 /\ UNCHANGED <<header_queue, returned, n403, slept, pc, err>>
            ELSE /\ stack' = [stack EXCEPT ![Len(stack)].at = "loop",
                                           ![Len(stack)].i = 1]
                 /\ UNCHANGED <<header_queue, returned, n403, nerr, slept,
                                pc, err>>
         /\ last' = Event("list", top.url,
                          IF status = 403 THEN "403"
                          ELSE IF status # 200 THEN "return" ELSE "next",
                          IF status = 403 THEN "Rate limit exceeded"
                          ELSE IF status # 200 THEN "Error fetching contents"
                          ELSE "none", status, 0, 0)
         /\ only403' = (only403 /\ status = 403)
    /\ UNCHANGED <<py_files, observed>>
    /\ UNCHANGED <<filterVars, inputVars, chunkVars, fetched>>

\* lines 149-150, and an entry that is neither a selected file nor a dir
SkipEntry ==
    /\ pc = "walk"
    /\ stack # <<>>
    /\ top.at = "loop"
    /\ top.i <= Len(items)
    /\ LET item == items[top.i]
       IN  /\ \/ ignore_dir(item.path)
              \/ /\ ~(item.type = "file"
                      /\ \E ext \in file_extension : endswith(item.name, ext))
                 /\ item.type # "dir"
           /\ last' = Event("skip", item.path, "next", "none", 0, 0, 0)
    /\ stack' = [stack EXCEPT ![Len(stack)].i = top.i + 1]
    /\ UNCHANGED <<py_files, pc, observed, header_queue, returned, n403, nerr,
                   slept, only403>>
    /\ UNCHANGED <<filterVars, inputVars, batchVars, fetched>>

\* lines 151-215: one selected file
SelectFile ==
    /\ pc = "walk"
    /\ stack # <<>>
    /\ top.at = "loop"
    /\ top.i <= Len(items)
    /\ LET item == items[top.i]
           commit_info == history[item.path]
       IN  /\ ~ignore_dir(item.path)
           /\ item.type = "file"
           /\ \E ext \in file_extension : endswith(item.name, ext)
           /\ \E fs \in Status, cs \in Status,
                 k \in 0..Len(commit_info), st \in {403, 404} :
                LET hs == [j \in 1..Len(commit_info) |->
                              IF j = k THEN st ELSE 200]
                    r == select_file(repo, item, commit_info, fs, cs, hs)
                IN  /\ IF r.out = "403" THEN may_throttle ELSE may_answer
                    /\ r.out = "return" => nerr < MaxErr
                    /\ py_files' = py_files \o r.rec
                    /\ IF r.out = "403"
                       THEN /\ error403(top.url)
                            /\ UNCHANGED nerr
                       ELSE IF r.out = "return"
                       THEN /\ stack' = Pop(stack)
                            /\ nerr' = nerr + 1
                            /\ UNCHANGED <<header_queue, returned, n403, slept,
                                           pc, err>>
                       ELSE /\ stack' = [stack EXCEPT ![Len(stack)].i = top.i + 1]
                            /\ UNCHANGED <<header_queue, returned, n403, nerr,
                                           slept, pc, err>>
                    /\ last' = Event("select", item.path, r.out, r.printed,
                                     fs, cs, r.at)
                    /\ only403' = (only403 /\ fs = 403 /\ cs = 403)
    /\ UNCHANGED observed
    /\ UNCHANGED <<filterVars, inputVars, chunkVars, fetched>>

\* the recursion of lines 216-217 without the test of line 149: every
\* directory entry is listed
Recurse_unfiltered ==
    /\ pc = "walk"
    /\ stack # <<>>
    /\ top.at = "loop"
    /\ top.i <= Len(items)
    /\ LET item == items[top.i]
       IN  /\ item.type = "dir"
           /\ stack' = Append([stack EXCEPT ![Len(stack)].i = top.i + 1],
                              Frame(item.path, top.headers))
           /\ last' = Event("recurse", item.path, "call", "none", 0, 0, 0)
    /\ UNCHANGED <<py_files, observed, header_queue, returned, n403, nerr,
                   slept, only403, pc, err>>
    /\ UNCHANGED <<filterVars, inputVars, chunkVars, fetched>>

\* lines 216-217: a directory, listed with the caller's headers
Recurse ==
    /\ pc = "walk"
    /\ stack # <<>>
    /\ top.at = "loop"
    /\ top.i <= Len(items)
    /\ LET item == items[top.i]
       IN  /\ ~ignore_dir(item.path)
           /\ ~(item.type = "file"
                /\ \E ext \in file_extension : endswith(item.name, ext))
           /\ item.type = "dir"
           /\ IF py_frames(stack) + 1 > getrecursionlimit
              THEN /\ stack' = <<>>
                   /\ pc' = "halted"
                   /\ err' = "RecursionError"
              ELSE /\ stack' = Append([stack EXCEPT ![Len(stack)].i = top.i + 1],
                                      Frame(item.path, top.headers))
                   /\ UNCHANGED <<pc, err>>
           /\ last' = Event("recurse", item.path, "call", "none", 0, 0, 0)
    /\ UNCHANGED <<py_files, observed, header_queue, returned, n403, nerr,
                   slept, only403>>
    /\ UNCHANGED <<filterVars, inputVars, chunkVars, fetched>>

\* the end of the for loop of line 146, or the return of lines 141, 157,
\* 160 and 194 once the retry has come back
ReturnFrame ==
    /\ pc = "walk"
    /\ stack # <<>>
    /\ IF top.at = "loop" THEN top.i > Len(items) ELSE top.at = "ret"
    /\ stack' = Pop(stack)
    /\ last' = Event("return", top.url, "return", "none", 0, 0, 0)
    /\ UNCHANGED <<py_files, pc, observed, header_queue, returned, n403, nerr,
                   slept, only403>>
    /\ UNCHANGED <<filterVars, inputVars, batchVars, fetched>>

\* lines 220-221: the outermost parse_contents is back, return py_files
FetchFilesReturn ==
    /\ pc = "walk"
    /\ stack = <<>>
    /\ pc' = "returned"
    /\ fetched' = Append(fetched, py_files)
    /\ last' = Event("fetched", contents_url, "return", "none", 0, 0, 0)
    /\ UNCHANGED <<py_files, stack, observed, header_queue, returned, n403, nerr,
                   slept, only403>>
    /\ UNCHANGED <<filterVars, inputVars, batchVars>>

Walk ==
    \/ FetchListing
    \/ SkipEntry
    \/ SelectFile
    \/ Recurse
    \/ ReturnFrame
    \/ FetchFilesReturn

(***************************************************************************)
(* Chunked Batch Runner: lines 223-254.                                    *)
(***************************************************************************)
\* line 223
chunk_index_size == 4

\* line 224: int(len(repositories) / chunk_index_size)
chunk_size_of(repos) == Len(repos) \div chunk_index_size

\* line 225: [repositories[i:i + size] for i in range(0, len, size)],
\* for size > 0
make_chunks(repos, size) ==
    LET n == (Len(repos) + size - 1) \div size
    IN  [c \in 1..n |->
            SubSeq(repos, (c - 1) * size + 1, Min(c * size, Len(repos)))]

\* the chunk the loop of line 229 is at (chunks is indexed from 0 in the code)
chunk == chunks[chunk_index + 1]

walkVars == <<py_files, stack, header_queue, returned, observed, n403, nerr,
              slept, only403,
              fetched>>

\* lines 223-226; range() with a step of 0 raises ValueError
Chunking ==
    /\ pc = "start"
    /\ LET size == chunk_size_of(repositories)
       IN  IF size = 0
           THEN /\ err' = "ValueError"
                /\ pc' = "halted"
                /\ UNCHANGED <<chunks, total_py_files>>
           ELSE /\ chunks' = make_chunks(repositories, size)
                /\ total_py_files' = <<>>
                /\ pc' = "chunk"
                /\ UNCHANGED err
    /\ last' = Event("chunking", <<>>, "next", "none", 0, 0, 0)
    /\ UNCHANGED <<chunk_index, repo_index, all_py_files, storage, walked>>
    /\ UNCHANGED <<filterVars, inputVars, walkVars>>

\* ChunkBegin without the reset of all_py_files of line 230
ChunkBegin_noreset ==
    /\ pc = "chunk"
    /\ chunk_index < chunk_index_size
    /\ IF chunk_index + 1 > Len(chunks)
       THEN /\ err' = "IndexError"
            /\ pc' = "halted"
            /\ UNCHANGED <<all_py_files, repo_index>>
       ELSE /\ all_py_files' = all_py_files
            /\ repo_index' = 1
            /\ pc' = "repos"
            /\ UNCHANGED err
    /\ last' = Event("chunk", <<>>, "next", "none", 0, 0, 0)
    /\ UNCHANGED <<chunks, chunk_index, total_py_files, storage, walked>>
    /\ UNCHANGED <<filterVars, inputVars, walkVars>>

\* lines 229-232: the next chunk_index of range(chunk_index_size);
\* chunks[chunk_index] raises IndexError past the end of the list
ChunkBegin ==
    /\ pc = "chunk"
    /\ chunk_index < chunk_index_size
    /\ IF chunk_index + 1 > Len(chunks)
       THEN /\ err' = "IndexError"
            /\ pc' = "halted"
            /\ UNCHANGED <<all_py_files, repo_index>>
       ELSE /\ all_py_files' = <<>>
            /\ repo_index' = 1
            /\ pc' = "repos"
            /\ UNCHANGED err
    /\ last' = Event("chunk", <<>>, "next", "none", 0, 0, 0)
    /\ UNCHANGED <<chunks, chunk_index, total_py_files, storage, walked>>
    /\ UNCHANGED <<filterVars, inputVars, walkVars>>

\* lines 234-235 with 99-110 and 220: call fetch_files on the next
\* repository of the chunk
CallFetchFiles ==
    /\ pc = "repos"
    /\ repo_index <= Len(chunk)
    /\ py_files' = <<>>
    /\ observed' = <<current_header(header_queue)>>
    /\ stack' = <<Frame(contents_url, current_header(header_queue))>>
    /\ walked' = Append(walked, chunk[repo_index])
    /\ pc' = "walk"
    /\ last' = Event("call", <<>>, "call", "none", 0, 0, 0)
    /\ UNCHANGED <<header_queue, returned, n403, nerr, slept, fetched>>
    /\ only403' = TRUE
    /\ UNCHANGED <<chunks, chunk_index, repo_index, all_py_files,
                   total_py_files, storage, err>>
    /\ UNCHANGED <<filterVars, inputVars>>

\* lines 236-243: all_py_files.extend(py_files)
ExtendChunk ==
    /\ pc = "returned"
    /\ all_py_files' = all_py_files \o py_files
    /\ repo_index' = repo_index + 1
    /\ pc' = "repos"
    /\ last' = Event("extend", <<>>, "next", "none", 0, 0, 0)
    /\ UNCHANGED <<chunks, chunk_index, total_py_files, storage, err, walked>>
    /\ UNCHANGED <<filterVars, inputVars, walkVars>>

\* a file name without the chunk index
chunk_file_same(k) == <<"chunk", 0>>

\* the file name of line 250
chunk_file(k) == <<"chunk", k>>

\* lines 245-253: write the chunk's parquet file, extend total_py_files
write_table(store, k, records) == (chunk_file(k) :> records) @@ store

Flush ==
    /\ pc = "repos"
    /\ repo_index > Len(chunk)
    /\ storage' = write_table(storage, chunk_index, all_py_files)
    /\ total_py_files' = total_py_files \o all_py_files
    /\ chunk_index' = chunk_index + 1
    /\ pc' = "chunk"
    /\ last' = Event("flush", <<>>, "next", "none", 0, 0, 0)
    /\ UNCHANGED <<chunks, repo_index, all_py_files, err, walked>>
    /\ UNCHANGED <<filterVars, inputVars, walkVars>>

\* line 254
ReturnTotal ==
    /\ pc = "chunk"
    /\ chunk_index = chunk_index_size
    /\ pc' = "done"
    /\ last' = Event("done", <<>>, "return", "none", 0, 0, 0)
    /\ UNCHANGED <<chunks, chunk_index, repo_index, all_py_files,
                   total_py_files, storage, err, walked>>
    /\ UNCHANGED <<filterVars, inputVars, walkVars>>

\* the process ends while the run is under way: requests.get raises when
\* the network is unavailable and nothing catches it
Halt ==
    /\ pc \in {"chunk", "repos", "walk", "returned"}
    /\ pc' = "halted"
    /\ err' = "ConnectionError"
    /\ last' = Event("halt", <<>>, "raise", "none", 0, 0, 0)
    /\ UNCHANGED <<chunks, chunk_index, repo_index, all_py_files,
                   total_py_files, storage, walked>>
    /\ UNCHANGED <<filterVars, inputVars, walkVars>>

(***************************************************************************)
(* Repository snapshots and inputs.                                        *)
(***************************************************************************)
P_lib == <<"l","i","b">>
P_s == <<"s">>
P_s_a == <<"s","/","a",".","p","y">>
P_a == <<"a",".","p","y">>
P_b == <<"b",".","i","p","y","n","b">>
P_env3 == <<"E","n","v","3">>
P_env3_d == <<"E","n","v","3","/","d",".","p","y">>
P_s_c == <<"s","/","c",".","p","y">>
P_n == <<"n",".","t","x","t">>

\* a root with an ignored directory and a directory holding one file
TreeOne ==
    (contents_url :> <<Item(P_lib, "dir"), Item(P_s, "dir")>>)
    @@ (P_s :> <<Item(P_s_a, "file")>>)
    @@ (P_lib :> <<>>)

\* a root with two selected files, an ignored directory, a directory
\* holding a selected file, and a file of another extension
TreeRich ==
    (contents_url :> <<Item(P_a, "file"), Item(P_env3, "dir"),
                       Item(P_s, "dir"), Item(P_b, "file"), Item(P_n, "file")>>)
    @@ (P_s :> <<Item(P_s_c, "file")>>)
    @@ (P_env3 :> <<Item(P_env3_d, "file")>>)

FilesOf(t) ==
    {it.path : it \in {x \in UNION {Range(t[d]) : d \in DOMAIN t} :
                           x.type = "file"}}

CommitDates ==
    {Stamp(2021, 1, 1), Stamp(2022, 6, 1), Stamp(2022, 11, 1), Stamp(2023, 1, 1)}

\* the commit lists of at most n entries, newest first
Histories(n) ==
    LET raw == SeqsUpTo(CommitDates \X BOOLEAN, n)
        sorted(h) == \A j \in 1..(Len(h) - 1) :
                        ~DateLess(fromisoformat(h[j][1]), fromisoformat(h[j + 1][1]))
    IN  {[j \in 1..Len(h) |-> Commit(<<"sha", j>>, h[j][1], h[j][2])] :
            h \in {x \in raw : sorted(x)}}

\* a few commit lists for the walks over the larger tree
FewHistories ==
    { <<>>,
      <<Commit(<<"sha", 1>>, Stamp(2023, 1, 1), TRUE)>>,
      <<Commit(<<"sha", 1>>, Stamp(2023, 1, 1), TRUE),
        Commit(<<"sha", 2>>, Stamp(2022, 6, 1), TRUE)>>,
      <<Commit(<<"sha", 1>>, Stamp(2022, 6, 1), FALSE),
        Commit(<<"sha", 2>>, Stamp(2021, 1, 1), TRUE)>>,
      <<Commit(<<"sha", 1>>, Stamp(2022, 6, 1), FALSE)>> }

\* the commit list of every file whose history an Init does not vary
BatchHistory ==
    <<Commit(<<"sha", 1>>, Stamp(2023, 1, 1), TRUE),
      Commit(<<"sha", 2>>, Stamp(2022, 6, 1), TRUE)>>

TokenLists(n) == {[i \in 1..k |-> i] : k \in 1..n}

\* the cyclic rotations of a queue
Rotations(q) ==
    {[i \in 1..Len(q) |-> q[((i - 1 + r) % Len(q)) + 1]] : r \in 0..(Len(q) - 1)}

NoEvent == Event("init", <<>>, "none", "none", 0, 0, 0)

IdleFilter == curpath = <<>> /\ ignored = FALSE

IdleBatch ==
    /\ chunks = <<>>
    /\ chunk_index = 0
    /\ repo_index = 0
    /\ all_py_files = <<>>
    /\ total_py_files = <<>>
    /\ storage = <<>>
    /\ err = "none"

(***************************************************************************)
(* SpecSelect: one call of fetch_files on a repository with one selected   *)
(* file, over every commit list of at most MaxCommits entries.             *)
(***************************************************************************)
InitWalkOn(trees, varied, histories, ntok) ==
    /\ IdleFilter
    /\ IdleBatch
    /\ token \in TokenLists(ntok)
    /\ header_queue \in Rotations(build_header_queue(token))
    /\ returned = <<>>
    /\ observed = <<current_header(header_queue)>>
    /\ afterGPT \in BOOLEAN
    /\ tree \in trees
    /\ \E h \in [varied -> histories] :
          history = [f \in FilesOf(tree) |->
                        IF f \in varied THEN h[f] ELSE BatchHistory]
    /\ repositories = <<Repo(1)>>
    /\ walked = <<Repo(1)>>
    /\ py_files = <<>>
    /\ fetched = <<>>
    /\ stack = <<Frame(contents_url, current_header(header_queue))>>
    /\ pc = "walk"
    /\ n403 = 0
    /\ nerr = 0
    /\ slept = 0
    /\ only403 = TRUE
    /\ last = NoEvent

InitSelect ==
    /\ InitWalkOn({TreeOne}, {P_s_a}, Histories(MaxCommits), 1)
    /\ outage = 0

SpecSelect == InitSelect /\ [][Walk]_vars

(***************************************************************************)
(* SpecWalk: one call of fetch_files on the larger tree.                   *)
(***************************************************************************)
InitWalk ==
    /\ InitWalkOn({TreeRich}, {P_a}, FewHistories, MaxTokens)
    /\ outage = 0

SpecWalk == InitWalk /\ [][Walk]_vars

(***************************************************************************)
(* SpecThrottle: one call of fetch_files while every credential is         *)
(* throttled: the provider answers 403 to the first outage requests and    *)
(* 200 or another failure to the later ones.  The walk is a sequential     *)
(* program that runs whenever it can: weak fairness of Walk.               *)
(***************************************************************************)
InitThrottle ==
    /\ InitWalkOn({TreeOne}, {P_s_a}, FewHistories, 1)
    /\ outage \in {1, MaxOutage - 1, MaxOutage}

SpecThrottle == InitThrottle /\ [][Walk]_vars /\ WF_vars(Walk)

(***************************************************************************)
(* Spec: a run of github_scraping from line 223 on, over N repositories,   *)
(* in the mode of the run at the bottom of the file (afterGPT = True).     *)
(***************************************************************************)
Init ==
    /\ IdleFilter
    /\ token \in TokenLists(MaxTokens)
    /\ header_queue = build_header_queue(token)
    /\ returned = <<>>
    /\ observed = <<>>
    /\ afterGPT = TRUE
    /\ tree = TreeOne
    /\ history = [f \in FilesOf(tree) |-> BatchHistory]
    /\ repositories \in {[i \in 1..n |-> Repo(i)] : n \in 0..MaxRepos}
    /\ chunks = <<>>
    /\ chunk_index = 0
    /\ repo_index = 0
    /\ all_py_files = <<>>
    /\ total_py_files = <<>>
    /\ storage = <<>>
    /\ err = "none"
    /\ walked = <<>>
    /\ py_files = <<>>
    /\ fetched = <<>>
    /\ stack = <<>>
    /\ pc = "start"
    /\ n403 = 0
    /\ nerr = 0
    /\ slept = 0
    /\ only403 = TRUE
    /\ outage = 0
    /\ last = NoEvent

Next ==
    \/ Chunking
    \/ ChunkBegin
    \/ CallFetchFiles
    \/ Walk
    \/ ExtendChunk
    \/ Flush
    \/ ReturnTotal
    \/ Halt

Spec == Init /\ [][Next]_vars

(***************************************************************************)
(* SpecFilter: ignore_dir applied to every path of at most MaxPathLen      *)
(* characters over PathChars.                                              *)
(***************************************************************************)
PathChars == {"/", "e", "n", "v", "V", "3", "\n"}

IdleRun ==
    /\ token = <<1>>
    /\ header_queue = build_header_queue(token)
    /\ returned = <<>>
    /\ observed = <<>>
    /\ afterGPT = TRUE
    /\ tree = TreeOne
    /\ history = [f \in FilesOf(tree) |-> BatchHistory]
    /\ repositories = <<>>
    /\ walked = <<>>
    /\ py_files = <<>>
    /\ fetched = <<>>
    /\ stack = <<>>
    /\ n403 = 0
    /\ nerr = 0
    /\ slept = 0
    /\ only403 = TRUE
    /\ outage = 0
    /\ last = NoEvent

InitFilter ==
    /\ curpath \in SeqsUpTo(PathChars, MaxPathLen)
    /\ ignored = FALSE
    /\ IdleBatch
    /\ IdleRun
    /\ pc = "filter"

\* line 149: the call ignore_dir(curpath)
CallIgnoreDir ==
    /\ pc = "filter"
    /\ ignored' = ignore_dir(curpath)
    /\ pc' = "filtered"
    /\ UNCHANGED <<curpath, last>>
    /\ UNCHANGED <<inputVars, batchVars, walkVars>>

SpecFilter == InitFilter /\ [][CallIgnoreDir]_vars

(***************************************************************************)
(* SpecRotator: the header queue of lines 48-51 under calls of             *)
(* get_next_header and reads of header_queue[-1].                          *)
(***************************************************************************)
\* the lists of k distinct tokens out of 1..n, for k in 1..n
DistinctTokenLists(n) ==
    {t \in UNION {[1..k -> 1..n] : k \in 1..n} :
        \A i, j \in 1..Len(t) : i # j => t[i] # t[j]}

InitRotator ==
    /\ IdleFilter
    /\ IdleBatch
    /\ token \in DistinctTokenLists(RotTokens)
    /\ header_queue = build_header_queue(token)
    /\ returned = <<>>
    /\ observed = <<>>
    /\ afterGPT = TRUE
    /\ tree = TreeOne
    /\ history = [f \in FilesOf(tree) |-> BatchHistory]
    /\ repositories = <<>>
    /\ walked = <<>>
    /\ py_files = <<>>
    /\ fetched = <<>>
    /\ stack = <<>>
    /\ n403 = 0
    /\ nerr = 0
    /\ slept = 0
    /\ only403 = TRUE
    /\ outage = 0
    /\ last = NoEvent
    /\ pc = "rotator"

\* line 133: next_headers = get_next_header()
RotateCall ==
    /\ pc = "rotator"
    /\ Len(returned) < MaxCalls
    /\ LET next == get_next_header(header_queue)
       IN  /\ header_queue' = next.queue
           /\ returned' = Append(returned, next.header)
    /\ UNCHANGED <<observed, py_files, stack, n403, nerr, slept, only403, pc,
                   fetched, last>>
    /\ UNCHANGED <<filterVars, inputVars, batchVars>>

\* line 110: headers = header_queue[-1]
CurrentCall ==
    /\ pc = "rotator"
    /\ observed' = <<current_header(header_queue)>>
    /\ UNCHANGED <<header_queue, returned, py_files, stack, n403, nerr, slept,
                   only403, pc,
                   fetched, last>>
    /\ UNCHANGED <<filterVars, inputVars, batchVars>>

NextRotator == RotateCall \/ CurrentCall

SpecRotator == InitRotator /\ [][NextRotator]_vars

(***************************************************************************)
(* Properties.                                                             *)
(***************************************************************************)
\* a committer date as a number YYYYMMDD, and the cutoff of line 188
DayNum(ts) == ts[1] * 10000 + ts[2] * 100 + ts[3]

CutoffDay == 20221101

Earlier(c) == DayNum(c.date) < CutoffDay

\* the records a step appended to py_files
Appended == SubSeq(py_files', Len(py_files) + 1, Len(py_files'))

OnlyAppends ==
    /\ Len(py_files') >= Len(py_files)
    /\ SubSeq(py_files', 1, Len(py_files)) = py_files

RECURSIVE Flatten(_)
Flatten(ss) == IF ss = <<>> THEN <<>> ELSE Head(ss) \o Flatten(Tail(ss))

\* the number of repositories in the chunks before chunk k (k from 1)
RECURSIVE ChunkStart(_)
ChunkStart(k) == IF k <= 1 THEN 0 ELSE ChunkStart(k - 1) + Len(chunks[k - 1])

\* the selected files of the snapshot: matching extension, reached through
\* directories that are not ignored
RECURSIVE SelectedUnder(_)
SelectedUnder(url) ==
    LET kept == {it \in Range(tree[url]) : ~ignore_dir(it.path)}
    IN  {it.path : it \in {x \in kept :
                             /\ x.type = "file"
                             /\ \E ext \in file_extension : endswith(x.name, ext)}}
        \cup UNION {SelectedUnder(d.path) : d \in {x \in kept : x.type = "dir"}}

\* the temporal predicate of the mode on a commit list
Satisfies(h) ==
    IF afterGPT THEN h # <<>> ELSE \E j \in 1..Len(h) : Earlier(h[j])

\* the same, on a commit whose revision can be recorded: in before-cutoff
\* mode one that decodes
SatisfiesDecodable(h) ==
    IF afterGPT THEN h # <<>>
    ELSE \E j \in 1..Len(h) : Earlier(h[j]) /\ h[j].utf8

RecordsOf(recs, f) == {i \in 1..Len(recs) : recs[i].file_path = f}

\* C1: when the run returns, the repositories walked are all N repositories
\* of the list, each once, in the original order.
C1_WalkedCoversAll == pc = "done" => walked = repositories

\* C2: when a walk that met only 200 and 403 responses returns, every
\* selected file whose commit list satisfies the temporal predicate (on a
\* revision that decodes, in before-cutoff mode) has exactly one record and
\* every other selected file has none.
C2_ExactlyOneRecordPerFile ==
    (pc = "returned" /\ nerr = 0) =>
        \A f \in SelectedUnder(contents_url) :
            Cardinality(RecordsOf(py_files, f))
                = IF SatisfiesDecodable(history[f]) THEN 1 ELSE 0

\* C3: in before-cutoff mode one selection of a file appends at most one
\* record; when every revision decodes, a record appended is that of the
\* newest commit strictly earlier than the cutoff (its timestamp, that
\* revision's content), and one is appended whenever such a commit exists
\* and no request of the selection failed.
C3_BeforeCutoffSelectsNewestEarlier ==
    [][(~afterGPT /\ last'.op = "select") =>
          LET h == history[last'.path]
              q == CHOOSE j \in 1..Len(h) :
                      Earlier(h[j]) /\ \A i \in 1..(j - 1) : ~Earlier(h[i])
          IN  /\ OnlyAppends
              /\ Len(Appended) <= 1
              /\ (\A j \in 1..Len(h) : h[j].utf8) =>
                    /\ Appended # <<>> =>
                          /\ \E j \in 1..Len(h) : Earlier(h[j])
                          /\ Appended[1] =
                                [content |-> [path |-> last'.path, ref |-> h[q].sha],
                                 timestamp |-> h[q].date,
                                 file_path |-> last'.path,
                                 repo_name |-> 1, repo_url |-> <<"html", 1>>]
                    /\ (/\ last'.out \notin {"403", "return"}
                        /\ \E j \in 1..Len(h) : Earlier(h[j])) => Appended # <<>>
      ]_vars

C3_Witness ==
    /\ ~afterGPT
    /\ last.op = "select"
    /\ Len(history[P_s_a]) = 3
    /\ history[P_s_a][1].date = Stamp(2023, 1, 1)
    /\ history[P_s_a][2].date = Stamp(2022, 6, 1)
    /\ history[P_s_a][3].date = Stamp(2021, 1, 1)
    /\ Len(py_files) = 1
    /\ py_files[1].timestamp = Stamp(2022, 6, 1)

\* C4: in after-cutoff mode a selection whose content and commit-list
\* requests succeed, on a non-empty commit list, appends exactly one record,
\* with the current content and the date of the first listed commit, and
\* stops at the first entry.
C4_AfterCutoffNewestCommit ==
    [][(/\ afterGPT
        /\ last'.op = "select"
        /\ last'.fs = 200
        /\ last'.cs = 200
        /\ history[last'.path] # <<>>) =>
          /\ OnlyAppends
          /\ Len(Appended) = 1
          /\ Appended[1] =
                [content |-> [path |-> last'.path, ref |-> "HEAD"],
                 timestamp |-> history[last'.path][1].date,
                 file_path |-> last'.path,
                 repo_name |-> 1, repo_url |-> <<"html", 1>>]
          /\ last'.at = 1
      ]_vars

C4_Witness ==
    /\ afterGPT
    /\ last.op = "select"
    /\ Len(history[P_s_a]) = 3
    /\ history[P_s_a][1].date # history[P_s_a][3].date
    /\ Len(py_files) = 1
    /\ py_files[1].timestamp = history[P_s_a][1].date

\* C5: in before-cutoff mode, a selection that fetched the commit page (both
\* requests answered 200) and finds every commit date at or after the cutoff
\* appends nothing, prints "TOO MANY COMMITS", raises nothing, and the same
\* invocation moves on to the next entry of the listing.
C5_ExhaustedHistory ==
    [][(/\ ~afterGPT
        /\ last'.op = "select"
        /\ last'.fs = 200
        /\ last'.cs = 200
        /\ \A j \in 1..Len(history[last'.path]) :
               ~Earlier(history[last'.path][j])) =>
          /\ py_files' = py_files
          /\ last'.printed = "TOO MANY COMMITS"
          /\ err' = "none"
          /\ pc' = "walk"
          /\ header_queue' = header_queue
          /\ Len(stack') = Len(stack)
          /\ stack' = [stack EXCEPT ![Len(stack)].i = stack[Len(stack)].i + 1]
      ]_vars

C5_Witness ==
    /\ ~afterGPT
    /\ last.op = "select"
    /\ last.path = P_a
    /\ history[P_a] # <<>>
    /\ last.printed = "TOO MANY COMMITS"
    /\ py_files = <<>>
    /\ stack # <<>>
    /\ stack[Len(stack)].at = "loop"
    /\ stack[Len(stack)].i = 2

\* the lower-cased final segment of a path, by the position of its last '/'
LowerSegment(p) ==
    LET slashes == {i \in 1..Len(p) : p[i] = "/"}
        k == IF slashes = {} THEN 0
             ELSE CHOOSE i \in slashes : \A j \in slashes : j <= i
    IN  [i \in 1..(Len(p) - k) |-> LowerChar(p[k + i])]

\* "env" or "venv" followed by one or more digits and nothing else
EnvDigits(seg) ==
    \E prefix \in {<<"e","n","v">>, <<"v","e","n","v">>} :
        /\ Len(seg) > Len(prefix)
        /\ \A i \in 1..Len(prefix) : seg[i] = prefix[i]
        /\ \A i \in (Len(prefix) + 1)..Len(seg) :
              seg[i] \in {"0", "1", "2", "3", "4", "5", "6", "7", "8", "9"}

\* C6: ignore_dir(P) is true exactly when the lower-cased final segment of P
\* is a denylist entry or is "env" or "venv" followed by one or more digits
\* and nothing else.
C6_IgnoreExactlyDenylistOrEnvDigits ==
    pc = "filtered" =>
        (ignored <=> \/ LowerSegment(curpath) \in ignore_filedir
                     \/ EnvDigits(LowerSegment(curpath)))

\* C7 as stated: a rotation moves the front header to the back and returns
\* the header that is at the front after the move; reading the current
\* header leaves the queue unchanged.
C7_RotateReturnsNewFront ==
    [][/\ returned' # returned =>
             /\ header_queue' = Append(Tail(header_queue), Head(header_queue))
             /\ returned'[Len(returned')] = Head(header_queue')
       /\ observed' # observed => header_queue' = header_queue
      ]_vars

\* C7 as amended: a rotation moves the front header to the back and returns
\* that moved header, which is at the back after the move; reading the
\* current header returns the back of the queue (the header the last
\* rotation returned, if there was one) and leaves the queue unchanged.
C7_RotateReturnsMovedHeader ==
    [][/\ returned' # returned =>
             /\ header_queue' = Append(Tail(header_queue), Head(header_queue))
             /\ returned' = Append(returned, Head(header_queue))
             /\ returned'[Len(returned')] = header_queue'[Len(header_queue')]
       /\ observed' # observed =>
             /\ header_queue' = header_queue
             /\ observed' = <<header_queue[Len(header_queue)]>>
             /\ returned # <<>> => observed' = <<returned[Len(returned)]>>
      ]_vars

C7_Witness ==
    /\ Len(header_queue) = 3
    /\ Len(returned) = 2
    /\ returned[2] = header_queue[3]
    /\ returned[2] # header_queue[1]
    /\ observed = <<returned[2]>>

\* C8: with n distinct credentials, any n consecutive rotations return each
\* credential exactly once, and the rotation n calls after a rotation
\* returns the same credential as that rotation.
C8_RoundRobin ==
    LET n == Len(token)
        creds == {[Authorization |-> <<"token", token[x]>>] : x \in 1..n}
    IN  \A i \in 1..Len(returned) :
           /\ i + n - 1 <= Len(returned) =>
                 {returned[k] : k \in i..(i + n - 1)} = creds
           /\ i + n <= Len(returned) => returned[i + n] = returned[i]

C8_Witness ==
    /\ pc = "rotator"
    /\ Len(token) = 3
    /\ Len(returned) = 4
    /\ returned[4] = returned[1]
    /\ Cardinality({returned[1], returned[2], returned[3]}) = 3

\* C9: the file of chunk k exists exactly when chunk_index has passed k; it
\* was written after every walk of chunk k returned and holds exactly what
\* those walks returned, in order; no repository of a later chunk is handed
\* to fetch_files before the file of chunk k is written.
C9_FlushBetweenChunks ==
    chunks # <<>> =>
        /\ DOMAIN storage = {<<"chunk", j>> : j \in 0..(chunk_index - 1)}
        /\ \A j \in 0..(chunk_index - 1) :
              LET lo == ChunkStart(j + 1)
                  hi == lo + Len(chunks[j + 1])
              IN  /\ Len(fetched) >= hi
                  /\ SubSeq(walked, lo + 1, hi) = chunks[j + 1]
                  /\ storage[<<"chunk", j>>] = Flatten(SubSeq(fetched, lo + 1, hi))
        /\ chunk_index < Len(chunks) =>
              Len(walked) <= ChunkStart(chunk_index + 1) + Len(chunks[chunk_index + 1])
        /\ chunk_index >= Len(chunks) => Len(walked) = ChunkStart(chunk_index + 1)

C9_Witness ==
    /\ pc = "walk"
    /\ chunk_index = 2
    /\ Len(chunks[1]) = 2
    /\ storage[<<"chunk", 0>>] # <<>>
    /\ storage[<<"chunk", 1>>] # <<>>
    /\ storage[<<"chunk", 0>>] # storage[<<"chunk", 1>>]

\* C10: a file written for a chunk is never changed or removed by a later
\* step, the halt of the run included.
C10_FlushedChunksKept ==
    [][\A f \in DOMAIN storage :
          f \in DOMAIN storage' /\ storage'[f] = storage[f]]_vars

C10_Witness ==
    /\ pc = "halted"
    /\ err = "ConnectionError"
    /\ chunk_index = 2
    /\ storage[<<"chunk", 0>>] # <<>>
    /\ storage[<<"chunk", 1>>] # <<>>
    /\ all_py_files # <<>>

\* C11: for every length N >= 0 of the repository list, no exception ends
\* the run between the chunking of line 223 and the return of line 254.
C11_NoErrorFromChunking == err \notin {"ValueError", "IndexError"}


\* the record a walk owes to a selected file, from the snapshot alone: in
\* after-cutoff mode the current content with the date of the newest commit,
\* in before-cutoff mode the newest revision earlier than the cutoff that
\* decodes
ExpectedRecord(f) ==
    LET h == history[f]
        D == {j \in 1..Len(h) : Earlier(h[j]) /\ h[j].utf8}
        Rec(ref, j) == [content |-> [path |-> f, ref |-> ref],
                        timestamp |-> h[j].date,
                        file_path |-> f,
                        repo_name |-> 1, repo_url |-> <<"html", 1>>]
    IN  IF afterGPT
        THEN IF h = <<>> THEN {} ELSE {Rec("HEAD", 1)}
        ELSE IF D = {} THEN {}
        ELSE LET q == CHOOSE j \in D : \A i \in D : j <= i
             IN  {Rec(h[q].sha, q)}

ExpectedRecords == UNION {ExpectedRecord(f) : f \in SelectedUnder(contents_url)}

\* C12: a walk that met only 200 and 403 responses returns a set of records
\* fixed by the snapshot alone, whatever the queue at the start and wherever
\* the 403 responses fell; two walks of one snapshot so return the same set.
C12_SameRecordSet ==
    (pc = "returned" /\ nerr = 0) => Range(py_files) = ExpectedRecords

C12_Witness ==
    /\ pc = "returned"
    /\ nerr = 0
    /\ n403 = 2
    /\ Len(token) = 2
    /\ header_queue[1] = Header(token[1])
    /\ Cardinality(Range(py_files)) = 3
    /\ Len(py_files) > 3


\* the step just taken was a request of a page answered 403
Throttled == last'.op \in {"list", "select"} /\ last'.out = "403"

\* C13: a request of a page answered 403 (listing, content, commit list or
\* revision) is followed by a sleep of three seconds, one rotation and a new
\* listing of the same URL under the credential the rotation returned, with
\* no record appended; once that call is back the invocation that met the
\* 403 only returns: no request, no record, no rotation.
C13_ThrottledRetry ==
    [][/\ Throttled =>
            /\ slept' = slept + 3
            /\ header_queue' = Append(Tail(header_queue), Head(header_queue))
            /\ returned' = Append(returned, Head(header_queue))
            /\ py_files' = py_files
            /\ Len(stack') = Len(stack) + 1
            /\ stack'[Len(stack')] =
                  [url |-> stack[Len(stack)].url, headers |-> Head(header_queue),
                   at |-> "fetch", i |-> 0]
            /\ stack'[Len(stack)] = [stack[Len(stack)] EXCEPT !.at = "ret"]
            /\ SubSeq(stack', 1, Len(stack) - 1) = SubSeq(stack, 1, Len(stack) - 1)
       /\ (stack # <<>> /\ stack[Len(stack)].at = "ret") =>
            /\ last'.op = "return"
            /\ stack' = SubSeq(stack, 1, Len(stack) - 1)
            /\ py_files' = py_files
            /\ header_queue' = header_queue
            /\ slept' = slept
       /\ \A k \in 1..(Len(stack) - 1) :
              stack[k].at = "ret" => (k <= Len(stack') /\ stack'[k] = stack[k])
      ]_vars

\* C14: with two distinct credentials, the listing that retries a request
\* answered 403 under credential c is issued under a credential other than
\* c, at every depth of the recursion.
C14_RetryUnderOtherCredential ==
    [][(/\ Throttled
        /\ Len(token) >= 2
        /\ \A i, j \in 1..Len(token) : i # j => token[i] # token[j]) =>
          stack'[Len(stack')].headers # stack[Len(stack)].headers
      ]_vars


\* C15 as stated: the record list only grows, and when a walk that met only
\* 200 and 403 responses returns, every selected file whose commit list
\* satisfies the temporal predicate has at least one record.
C15_NoProgressLost ==
    [][/\ OnlyAppends
       /\ (pc' = "returned" /\ nerr' = 0) =>
             \A f \in SelectedUnder(contents_url) :
                Satisfies(history[f]) => RecordsOf(py_files', f) # {}
      ]_vars

\* C15 amended: the record list only grows, and when a walk that met only
\* 200 and 403 responses returns, every selected file that has a commit (in
\* after-cutoff mode) or a commit earlier than the cutoff whose revision
\* decodes (in before-cutoff mode) has at least one record.
C15_NoProgressLostDecodable ==
    [][/\ OnlyAppends
       /\ (pc' = "returned" /\ nerr' = 0) =>
             \A f \in SelectedUnder(contents_url) :
                SatisfiesDecodable(history[f]) => RecordsOf(py_files', f) # {}
      ]_vars

C15_Witness ==
    /\ pc = "returned"
    /\ nerr = 0
    /\ n403 = 2
    /\ ~afterGPT
    /\ last.op = "fetched"
    /\ history[P_a] = <<Commit(<<"sha", 1>>, Stamp(2022, 6, 1), FALSE)>>
    /\ RecordsOf(py_files, P_a) = {}
    /\ Cardinality(RecordsOf(py_files, P_s_c)) = 2
    /\ RecordsOf(py_files, P_b) # {}


\* C16: a content, commit-list or revision response that is neither 200 nor
\* 403 ends the selection of that file only: no record, no rotation, no
\* retry, no error, and the page goes on with the entry after the file.
C16_FailureAbortsOnlyFile ==
    [][(last'.op = "select" /\ last'.out = "return") =>
          /\ py_files' = py_files
          /\ header_queue' = header_queue
          /\ n403' = n403
          /\ err' = "none"
          /\ stack' = [stack EXCEPT ![Len(stack)].i = stack[Len(stack)].i + 1]
      ]_vars


\* C17: in before-cutoff mode a revision earlier than the cutoff that does
\* not decode yields no record and no error and the scan goes on with the
\* next older commit: a record appended for the file is that of the newest
\* commit earlier than the cutoff whose revision decodes, one is appended
\* whenever such a commit exists and no request failed, and a request that
\* fails at entry j was reached past undecodable revisions only.
C17_DecodeFailureSkipsCommit ==
    [][(/\ ~afterGPT
        /\ last'.op = "select"
        /\ last'.fs = 200
        /\ last'.cs = 200) =>
          LET h == history[last'.path]
              D == {j \in 1..Len(h) : Earlier(h[j]) /\ h[j].utf8}
              q == CHOOSE j \in D : \A i \in D : j <= i
          IN  /\ OnlyAppends
              /\ Len(Appended) <= 1
              /\ err' = "none"
              /\ Appended # <<>> =>
                    /\ D # {}
                    /\ last'.at = q
                    /\ Appended[1] =
                          [content |-> [path |-> last'.path, ref |-> h[q].sha],
                           timestamp |-> h[q].date,
                           file_path |-> last'.path,
                           repo_name |-> 1, repo_url |-> <<"html", 1>>]
              /\ (D # {} /\ last'.out \notin {"403", "return"}) => Appended # <<>>
              /\ last'.out \in {"403", "return"} =>
                    /\ Earlier(h[last'.at])
                    /\ \A i \in 1..(last'.at - 1) : Earlier(h[i]) => ~h[i].utf8
      ]_vars

C17_Witness ==
    /\ ~afterGPT
    /\ last.op = "select"
    /\ last.out = "append"
    /\ last.at = 3
    /\ Len(history[P_s_a]) = 3
    /\ history[P_s_a][1].date = Stamp(2022, 6, 1)
    /\ ~history[P_s_a][1].utf8
    /\ history[P_s_a][2].date = Stamp(2022, 6, 1)
    /\ ~history[P_s_a][2].utf8
    /\ history[P_s_a][3].date = Stamp(2021, 1, 1)
    /\ Len(py_files) = 1
    /\ py_files[1].timestamp = Stamp(2021, 1, 1)
    /\ py_files[1].content.ref = <<"sha", 3>>
    /\ err = "none"


\* C18: no cap on the retries: a walk whose 403 responses are finitely many
\* eventually returns, and as long as every response so far was a 403 the
\* walk is still running, one invocation deeper per 403, about to list the
\* same URL again.
C18_NoRetryCap ==
    /\ <>(pc = "returned")
    /\ [](only403 /\ n403 > 0 =>
            /\ pc = "walk"
            /\ Len(stack) = n403 + 1
            /\ stack[Len(stack)] = [url |-> contents_url,
                                    headers |-> returned[Len(returned)],
                                    at |-> "fetch", i |-> 0])


\* the headers of the token list, in the order of lines 48-52
InitialSequence == [i \in 1..Len(token) |-> [Authorization |-> <<"token", token[i]>>]]

IsCyclicRotation(q, base) ==
    /\ q # <<>>
    /\ Len(q) = Len(base)
    /\ \E r \in 0..(Len(base) - 1) :
          \A i \in 1..Len(base) : q[i] = base[((i - 1 + r) % Len(base)) + 1]

\* C19: the queue is always a cyclic rotation of the initial sequence of
\* credentials, never empty; a step that handles a 403 changes it by one
\* pop-front/push-back, every other step leaves it unchanged.
C19_QueueIsRotation ==
    [][/\ IsCyclicRotation(header_queue, InitialSequence)
       /\ IsCyclicRotation(header_queue', InitialSequence)
       /\ IF Throttled
          THEN /\ header_queue' = Tail(header_queue) \o <<Head(header_queue)>>
               /\ n403' = n403 + 1
          ELSE /\ header_queue' = header_queue
               /\ n403' = n403
      ]_vars

C19_Witness ==
    /\ pc = "returned"
    /\ Len(token) = 2
    /\ n403 = 1
    /\ nerr = 1
    /\ py_files # <<>>
    /\ returned = <<[Authorization |-> <<"token", token[1]>>]>>
    /\ header_queue = <<[Authorization |-> <<"token", token[2]>>],
                        [Authorization |-> <<"token", token[1]>>]>>


\* the Path Filter on the final segment of a path, as C6 words it
FilterIgnores(p) ==
    \/ LowerSegment(p) \in ignore_filedir
    \/ EnvDigits(LowerSegment(p))

\* a path and the paths of the directories above it
PathPrefixes(p) ==
    {SubSeq(p, 1, k - 1) : k \in {i \in 1..Len(p) : p[i] = "/"}} \cup {p}

Pruned(p) == \E q \in PathPrefixes(p) : FilterIgnores(q)

IsFileEntry(p) ==
    \E d \in DOMAIN tree : \E k \in 1..Len(tree[d]) :
        tree[d][k].path = p /\ tree[d][k].type = "file"

HasExtension(p) ==
    \E ext \in file_extension :
        /\ Len(p) >= Len(ext)
        /\ SubSeq(p, Len(p) - Len(ext) + 1, Len(p)) = ext

\* C20: every invocation of parse_contents lists the root or a directory
\* with no ignored segment, a listing request just issued was for such a
\* directory, and every record is that of a file entry with a configured
\* extension and no ignored segment in its path.
C20_Pruning ==
    /\ \A k \in 1..Len(stack) :
          stack[k].url = contents_url \/ ~Pruned(stack[k].url)
    /\ last.op = "list" => (last.path = contents_url \/ ~Pruned(last.path))
    /\ \A i \in 1..Len(py_files) :
          /\ IsFileEntry(py_files[i].file_path)
          /\ HasExtension(py_files[i].file_path)
          /\ ~Pruned(py_files[i].file_path)

C20_Witness ==
    /\ pc = "returned"
    /\ n403 = 0
    /\ nerr = 0
    /\ tree = TreeRich
    /\ history[P_env3_d] # <<>>
    /\ history[P_n] # <<>>
    /\ afterGPT
    /\ {py_files[i].file_path : i \in 1..Len(py_files)} = {P_a, P_b, P_s_c}

====
